---- MODULE Spec2Model ----
(***************************************************************************)
(* Minesweeper (src/src/minesweeper/minesweeper.py): board generation,    *)
(* value grid, visibility engine, end check and the game loop run_game.   *)
(*                                                                         *)
(* A grid (numpy array of shape (height, width)) is a function from       *)
(* <<row, column>> (0-based) to an integer.  Visibility: 0 covered,       *)
(* 1 revealed, -1 flagged.  Value: -1 mine, 0..8 adjacent mines.          *)
(***************************************************************************)
EXTENDS Integers, Sequences, FiniteSets, TLC

VARIABLES
    pc,        \* position of run_game: "mapinfo" (get_mapinfo prompt),
               \* "position" (get_position prompt), "end" (line 390, after
               \* check_end returned), "gameover" / "win" (play-again
               \* prompt), "exit", "error" (uncaught exception)
    width,     \* run_game locals set by get_mapinfo
    height,
    mines,
    map,       \* mine grid returned by init_map (None before the first call)
    value,     \* value grid (None before the first move)
    visible,   \* visibility grid (None before the first move)
    row,       \* the position get_position returned for the current move
    column,
    flag,      \* the flag option get_position returned for the current move
    before,    \* the visibility grid update_visible received for the
               \* current move, as it was on entry
    end,       \* the result of check_end for the current move
    moves,     \* number of moves played in the current round
    number,    \* the argument of int_to_letters, when the codec runs on
               \* its own
    column_str \* the column label: the result of int_to_letters, the
               \* argument of letters_to_int, when the codec runs on its own

vars == <<pc, width, height, mines, map, value, visible, row, column, flag,
          before, end, moves, number, column_str>>

---------------------------------------------------------------------------
(* Bounds of the model *)

\* moves played in one round of run_game
MaxMoves == 3
\* largest width, height and mine count init_map is called with on its own
MaxW == 5
MaxH == 5
MaxMines == 3
\* largest width, height and mine count of the boards update_visible is
\* called with on its own
VisMaxW == 4
VisMaxH == 4
VisMaxMines == 2
\* largest width, height and mine count of the grids check_end is called
\* with on its own
EndMaxW == 3
EndMaxH == 1
EndMaxMines == 1

\* largest width and height of the mine grids get_value is called with on
\* its own
ValMaxW == 3
ValMaxH == 3

\* largest number int_to_letters is called with on its own
MaxNumber == 800

(* Program constants *)
MAX_SIZE == 100
MAX_MINE_FACTOR == 2

\* Python's None for value / visible / map
None == << >>

Min(a, b) == IF a < b THEN a ELSE b

RECURSIVE Sum(_, _)
\* sum of f over the finite set S
Sum(f, S) ==
    IF S = {} THEN 0
    ELSE LET x == CHOOSE y \in S : TRUE IN f[x] + Sum(f, S \ {x})

\* index set of an array of shape (h, w)
Cells(w, h) == (0 .. h - 1) \X (0 .. w - 1)

\* np.zeros((h, w)) / np.ones((h, w))
Zeros(w, h) == [c \in Cells(w, h) |-> 0]
Ones(w, h) == [c \in Cells(w, h) |-> 1]

\* the 3x3 window RANGE centred on c, clipped to the array
\* (convolve / label with mode='constant': off-board cells are 0)
Window(g, c) ==
    {<<c[1] + i, c[2] + j>> : i \in -1 .. 1, j \in -1 .. 1} \cap DOMAIN g

\* scipy.ndimage.convolve(g, RANGE, mode='constant')
convolve(g) == [c \in DOMAIN g |-> Sum(g, Window(g, c))]

---------------------------------------------------------------------------
(* Coordinate codec.  A string is a sequence of character codes (ord). *)

RECURSIVE int_to_letters_Plain(_)
\* int_to_letters with the digits of ordinary base 26: value % 26 and
\* value // 26, without the subtraction of 1
int_to_letters_Plain(v) ==
    IF v > 0
    THEN int_to_letters_Plain(v \div 26) \o << (v % 26) + 65 >>
    ELSE << >>

RECURSIVE int_to_letters(_)
\* int_to_letters: while value > 0, prepend chr((value-1) % 26 + 65)
int_to_letters(v) ==
    IF v > 0
    THEN int_to_letters((v - 1) \div 26) \o << ((v - 1) % 26) + 65 >>
    ELSE << >>

RECURSIVE Pow26(_)
Pow26(i) == IF i = 0 THEN 1 ELSE 26 * Pow26(i - 1)

\* one term of the sum of letters_to_int, for the character i places from
\* the right
LetterTerm(letters, i) ==
    LET char == letters[Len(letters) - i]
    IN  IF 65 <= char /\ char < 91 THEN (char - 64) * Pow26(i)
        ELSE IF 97 <= char /\ char < 123 THEN (char - 96) * Pow26(i)
        ELSE 0

\* letters_to_int: the 0-based column of a column label
letters_to_int(letters) ==
    Sum([i \in 0 .. Len(letters) - 1 |-> LetterTerm(letters, i)],
        0 .. Len(letters) - 1) - 1

\* str.lower() of a label of upper-case letters
Lower(letters) == [i \in 1 .. Len(letters) |-> letters[i] + 32]

---------------------------------------------------------------------------
(* Board generator *)

RECURSIVE Truncations(_, _)
\* the sets np.random.permutation(E)[:n] can hold: every subset of E with
\* n elements, or E itself when E has fewer than n
Truncations(E, n) ==
    IF n = 0 \/ E = {} THEN {{}}
    ELSE IF Cardinality(E) <= n THEN {E}
    ELSE LET x == CHOOSE y \in E : TRUE
         IN  {T \cup {x} : T \in Truncations(E \ {x}, n - 1)}
                 \cup Truncations(E \ {x}, n)

\* Avoids with the last index of the list left out
Avoids_Short(w, avoid) ==
    LET v == avoid[1] * w + avoid[2]
    IN  {v - w - 1, v - w, v - w + 1,
         v - 1, v, v + 1,
         v + w - 1, v + w}

\* the nine linear indices init_map avoids around avoid = <<row, column>>
Avoids(w, avoid) ==
    LET v == avoid[1] * w + avoid[2]
    IN  {v - w - 1, v - w, v - w + 1,
         v - 1, v, v + 1,
         v + w - 1, v + w, v + w + 1}

\* init_map: the mine grids it can return
init_map(w, h, m, avoid) ==
    LET eligible == (0 .. w * h - 1) \ Avoids(w, avoid)
    IN  {[c \in Cells(w, h) |-> IF c[1] * w + c[2] \in pos THEN 1 ELSE 0] :
            pos \in Truncations(eligible, m)}

---------------------------------------------------------------------------
(* Value grid builder *)

\* get_value with the default mode of convolve ('reflect': a cell off the
\* board counts as the edge cell next to it)
get_value_Reflect(m) ==
    LET rows == {c[1] : c \in DOMAIN m}
        cols == {c[2] : c \in DOMAIN m}
        clamp(x, S) == IF x \in S THEN x
                       ELSE IF \A y \in S : x < y THEN x + 1 ELSE x - 1
        conv == [c \in DOMAIN m |->
                    Sum([d \in (-1 .. 1) \X (-1 .. 1) |->
                            m[<<clamp(c[1] + d[1], rows),
                                clamp(c[2] + d[2], cols)>>]],
                        (-1 .. 1) \X (-1 .. 1))]
    IN  [c \in DOMAIN m |-> IF m[c] = 1 THEN -1 ELSE conv[c]]

\* get_value: convolution, then -1 where a mine is
get_value(m) ==
    LET conv == convolve(m)
    IN  [c \in DOMAIN m |-> IF m[c] = 1 THEN -1 ELSE conv[c]]

---------------------------------------------------------------------------
(* Visibility engine *)

RECURSIVE Grow_Cross(_, _)
\* Grow with the cross-shaped structure (no diagonal neighbours)
Grow_Cross(g, S) ==
    LET near(c) == {d \in Window(g, c) : d[1] = c[1] \/ d[2] = c[2]}
        N == S \cup {d \in UNION {near(c) : c \in S} : g[d] # 0}
    IN  IF N = S THEN S ELSE Grow_Cross(g, N)

RECURSIVE Grow(_, _)
\* the cells label() gives the label of the cells of S: the non-zero cells
\* of g joined to S through non-zero cells, with structure RANGE
Grow(g, S) ==
    LET N == S \cup {d \in UNION {Window(g, c) : c \in S} : g[d] # 0}
    IN  IF N = S THEN S ELSE Grow(g, N)

\* labeled == labeled[pos], for a cell pos that is non-zero in g
SameLabel(g, pos) == Grow(g, {pos})

\* Flood without the convolution that adds the one-cell border
Flood_NoBorder(val, vis, pos) ==
    LET val_temp == [c \in DOMAIN val |-> IF val[c] = 0 THEN 9 ELSE 0]
        region   == SameLabel(val_temp, pos)
    IN  [c \in DOMAIN vis |-> IF c \in region THEN 1 ELSE vis[c]]

\* Flood where the convolution of line 275 is applied twice (a border two
\* cells wide)
Flood_WideBorder(val, vis, pos) ==
    LET val_temp == [c \in DOMAIN val |-> IF val[c] = 0 THEN 9 ELSE 0]
        region   == SameLabel(val_temp, pos)
        vis_temp == convolve(convolve([c \in DOMAIN vis |->
                                          IF c \in region THEN 1 ELSE 0]))
    IN  [c \in DOMAIN vis |-> IF vis_temp[c] >= 1 THEN 1 ELSE vis[c]]

\* Flood where line 275 convolves the region together with the cells that
\* are revealed already
Flood_DilateVisible(val, vis, pos) ==
    LET val_temp == [c \in DOMAIN val |-> IF val[c] = 0 THEN 9 ELSE 0]
        region   == SameLabel(val_temp, pos)
        vis_temp == convolve([c \in DOMAIN vis |->
                                 IF c \in region \/ vis[c] = 1 THEN 1 ELSE 0])
    IN  [c \in DOMAIN vis |-> IF vis_temp[c] >= 1 THEN 1 ELSE vis[c]]

\* the flood branch of update_visible (value[pos] = 0)
Flood(val, vis, pos) ==
    LET val_temp == [c \in DOMAIN val |-> IF val[c] = 0 THEN 9 ELSE 0]
        region   == SameLabel(val_temp, pos)
        vis_temp == convolve([c \in DOMAIN vis |->
                                 IF c \in region THEN 1 ELSE 0])
    IN  [c \in DOMAIN vis |-> IF vis_temp[c] >= 1 THEN 1 ELSE vis[c]]

\* update_visible without the test for a flagged cell on a reveal
update_visible_RevealFlagged(val, vis, pos, f) ==
    IF f
    THEN IF vis[pos] = 0 THEN [vis EXCEPT ![pos] = -1]
         ELSE IF vis[pos] = -1 THEN [vis EXCEPT ![pos] = 0]
         ELSE vis
    ELSE IF val[pos] = 0 THEN Flood(val, vis, pos)
         ELSE [vis EXCEPT ![pos] = 1]

\* update_visible where a reveal takes the flag off a flagged cell
update_visible_Unflag(val, vis, pos, f) ==
    IF f
    THEN IF vis[pos] = 0 THEN [vis EXCEPT ![pos] = -1]
         ELSE IF vis[pos] = -1 THEN [vis EXCEPT ![pos] = 0]
         ELSE vis
    ELSE IF vis[pos] = -1 THEN [vis EXCEPT ![pos] = 0]
         ELSE IF val[pos] = 0 THEN Flood(val, vis, pos)
         ELSE [vis EXCEPT ![pos] = 1]

\* update_visible where a flag command tests only for a flagged cell
update_visible_FlagRevealed(val, vis, pos, f) ==
    IF f
    THEN IF vis[pos] = -1 THEN [vis EXCEPT ![pos] = 0]
         ELSE [vis EXCEPT ![pos] = -1]
    ELSE IF vis[pos] = -1 THEN vis
         ELSE IF val[pos] = 0 THEN Flood(val, vis, pos)
         ELSE [vis EXCEPT ![pos] = 1]

\* update_visible where a reveal of a non-zero cell reveals its 3x3 window
update_visible_RevealWindow(val, vis, pos, f) ==
    IF f
    THEN IF vis[pos] = 0 THEN [vis EXCEPT ![pos] = -1]
         ELSE IF vis[pos] = -1 THEN [vis EXCEPT ![pos] = 0]
         ELSE vis
    ELSE IF vis[pos] = -1 THEN vis
         ELSE IF val[pos] = 0 THEN Flood(val, vis, pos)
         ELSE [c \in DOMAIN vis |->
                  IF c \in Window(vis, pos) THEN 1 ELSE vis[c]]

\* update_visible
update_visible(val, vis, pos, f) ==
    IF f
    THEN IF vis[pos] = 0 THEN [vis EXCEPT ![pos] = -1]
         ELSE IF vis[pos] = -1 THEN [vis EXCEPT ![pos] = 0]
         ELSE vis
    ELSE IF vis[pos] = -1 THEN vis
         ELSE IF val[pos] = 0 THEN Flood(val, vis, pos)
         ELSE [vis EXCEPT ![pos] = 1]

---------------------------------------------------------------------------
(* End check *)

\* check_end that reports a loss for a revealed mine anywhere
check_end_AnyMine(val, vis, pos) ==
    IF \E c \in DOMAIN val : val[c] = -1 /\ vis[c] = 1 THEN 0
    ELSE IF ~ \E c \in DOMAIN val : (val[c] # -1) # (vis[c] = 1) THEN 1
    ELSE -1

\* check_end: 0 lost, 1 won, -1 the game goes on
check_end(val, vis, pos) ==
    IF val[pos] = -1 /\ vis[pos] = 1 THEN 0
    ELSE IF ~ \E c \in DOMAIN val : (val[c] # -1) # (vis[c] = 1) THEN 1
    ELSE -1

---------------------------------------------------------------------------
(* Board-size prompt *)

\* a token of the input line: int(token) succeeds (isint) with value val,
\* or raises ValueError
Tok(n) == [isint |-> TRUE, val |-> n]
NotInt == [isint |-> FALSE, val |-> 0]

\* the condition under which get_mapinfo returns width, height, mines
Accepted(w, h, m) ==
    /\ 0 < w /\ w <= MAX_SIZE
    /\ 0 < h /\ h <= MAX_SIZE
    /\ m >= 1
    /\ w * h > m * MAX_MINE_FACTOR
    /\ m <= w * h - 3 * Min(3, Min(w, h))

\* get_mapinfo on the token list l: "return", "retry" (a diagnostic is
\* printed and the prompt repeats) or "raise" (IndexError, which nothing
\* catches)
MapInfoOutcome(l) ==
    IF Len(l) >= 1 /\ ~ l[1].isint THEN "retry"
    ELSE IF Len(l) < 2 THEN "raise"
    ELSE IF ~ l[2].isint THEN "retry"
    ELSE IF Len(l) < 3 THEN "raise"
    ELSE IF ~ l[3].isint THEN "retry"
    ELSE IF Accepted(l[1].val, l[2].val, l[3].val) THEN "return"
    ELSE "retry"

\* the board sizes typed at the board-size prompt: <<width, height, mines>>
Boards ==
    {<<1, 4, 1>>, <<1, 5, 1>>, <<2, 4, 2>>, <<4, 2, 1>>, <<7, 1, 2>>,
     <<3, 4, 2>>, <<4, 3, 2>>}

\* the lines typed that are no board: a dimension of 0 or above MAX_SIZE,
\* no mine, too many mines, a word, too few or too many tokens
OtherLines ==
    {<<Tok(0), Tok(4), Tok(1)>>, <<Tok(MAX_SIZE + 1), Tok(4), Tok(1)>>,
     <<Tok(4), Tok(0), Tok(1)>>, <<Tok(4), Tok(MAX_SIZE + 1), Tok(1)>>,
     <<Tok(4), Tok(4), Tok(0)>>, <<Tok(3), Tok(3), Tok(1)>>,
     <<Tok(2), Tok(4), Tok(4)>>, <<Tok(1), Tok(4), Tok(2)>>,
     <<NotInt, Tok(4), Tok(1)>>, <<Tok(4), NotInt, Tok(1)>>,
     <<Tok(4), Tok(4), NotInt>>,
     << >>, <<Tok(1)>>, <<NotInt>>, <<Tok(1), Tok(4)>>, <<Tok(1), NotInt>>,
     <<Tok(1), Tok(4), Tok(1), Tok(1)>>}

\* the input lines typed at the board-size prompt
MapInfoInputs ==
    {<<Tok(b[1]), Tok(b[2]), Tok(b[3])>> : b \in Boards} \cup OtherLines

\* what get_mapinfo can do at the prompt, and the lines it returns on
MapInfoOutcomes == {MapInfoOutcome(l) : l \in MapInfoInputs}
MapInfoReturned == {l \in MapInfoInputs : MapInfoOutcome(l) = "return"}

---------------------------------------------------------------------------
(* Move prompt *)

\* the column labels and row numbers typed at the move prompt of a w x h
\* board: every column and row of the board, and one past each end
ColumnInputs(w) ==
    LET upper == {int_to_letters(n) : n \in 1 .. w + 1}
    IN  upper \cup {Lower(u) : u \in upper}
RowInputs(h) == 0 .. h + 1

\* get_position: the range check on a parsed position
InRange(r, c, w, h) == 0 <= c /\ c < w /\ 0 <= r /\ r < h

---------------------------------------------------------------------------
(* run_game *)

\* row, column, flag, before and end belong to one iteration of the game
\* loop; line 379 assigns the next move before anything reads the last, so
\* between iterations the model holds these values
NoMove ==
    /\ row' = 0 /\ column' = 0 /\ flag' = FALSE
    /\ before' = None /\ end' = -1

Init ==
    /\ pc = "mapinfo"
    /\ width = 0 /\ height = 0 /\ mines = 0
    /\ map = None /\ value = None /\ visible = None
    /\ row = 0 /\ column = 0 /\ flag = FALSE
    /\ before = None /\ end = -1 /\ moves = 0
    /\ number = 0 /\ column_str = << >>

\* MapInfoReturn without the assignments of lines 368-369
MapInfoReturn_Keep ==
    /\ pc = "mapinfo"
    /\ \E l \in MapInfoReturned :
        /\ width' = l[1].val /\ height' = l[2].val /\ mines' = l[3].val
    /\ moves' = 0
    /\ pc' = "position"
    /\ NoMove
    /\ UNCHANGED <<map, value, visible, number, column_str>>

\* get_mapinfo returns: lines 366-369 set value and visible to None; the
\* local map keeps the grid of the round before until line 383 assigns it
MapInfoReturn ==
    /\ pc = "mapinfo"
    /\ \E l \in MapInfoReturned :
        /\ width' = l[1].val /\ height' = l[2].val /\ mines' = l[3].val
    /\ value' = None /\ visible' = None
    /\ moves' = 0
    /\ pc' = "position"
    /\ NoMove
    /\ UNCHANGED <<map, number, column_str>>

\* get_mapinfo prints a diagnostic and asks again
MapInfoRetry ==
    /\ pc = "mapinfo"
    /\ "retry" \in MapInfoOutcomes
    /\ UNCHANGED vars

\* get_mapinfo raises IndexError: the process ends with a traceback
MapInfoRaise ==
    /\ pc = "mapinfo"
    /\ "raise" \in MapInfoOutcomes
    /\ pc' = "error"
    /\ UNCHANGED <<width, height, mines, map, value, visible, row, column,
                   flag, before, end, moves,
                   number, column_str>>

\* Quit where q / Q raises Restart
Quit_Restart ==
    /\ pc = "position"
    /\ pc' = "mapinfo"
    /\ UNCHANGED <<width, height, mines, map, value, visible, row, column,
                   flag, before, end, moves, number, column_str>>

\* q / Q at the move prompt
Quit ==
    /\ pc = "position"
    /\ pc' = "exit"
    /\ UNCHANGED <<width, height, mines, map, value, visible, row, column,
                   flag, before, end, moves,
                   number, column_str>>

\* r / R at the move prompt: continue of the outer loop
Restart ==
    /\ pc = "position"
    /\ pc' = "mapinfo"
    /\ UNCHANGED <<width, height, mines, map, value, visible, row, column,
                   flag, before, end, moves,
                   number, column_str>>

\* h / H, a line that does not match the grammar, or a position out of
\* range: the prompt repeats
Reprompt ==
    /\ pc = "position"
    /\ UNCHANGED vars

\* Move without the test of line 382: init_map and get_value run on every
\* move, the visibility grid is kept
Move_Regenerate ==
    /\ pc = "position"
    /\ moves < MaxMoves
    /\ \E cs \in ColumnInputs(width), rs \in RowInputs(height),
          f \in BOOLEAN :
        LET r == rs - 1
            c == letters_to_int(cs)
        IN  /\ InRange(r, c, width, height)
            /\ row' = r /\ column' = c /\ flag' = f
            /\ map' \in init_map(width, height, mines, <<r, c>>)
            /\ value' = get_value(map')
            /\ before' = IF value = None THEN Zeros(width, height)
                          ELSE visible
            /\ visible' = update_visible(value', before', <<r, c>>, f)
            /\ end' = check_end(value', visible', <<r, c>>)
    /\ moves' = moves + 1
    /\ pc' = "end"
    /\ UNCHANGED <<width, height, mines, number, column_str>>

\* lines 379-389 for a position in range: the grids are generated on the
\* first move, update_visible is applied, check_end is called
Move ==
    /\ pc = "position"
    /\ moves < MaxMoves
    /\ \E cs \in ColumnInputs(width), rs \in RowInputs(height),
          f \in BOOLEAN :
        LET r == rs - 1
            c == letters_to_int(cs)
        IN  /\ InRange(r, c, width, height)
            /\ row' = r /\ column' = c /\ flag' = f
            /\ IF value = None
               THEN /\ map' \in init_map(width, height, mines, <<r, c>>)
                    /\ value' = get_value(map')
                    /\ before' = Zeros(width, height)
               ELSE /\ UNCHANGED <<map, value>>
                    /\ before' = visible
            /\ visible' = update_visible(value', before', <<r, c>>, f)
            /\ end' = check_end(value', visible', <<r, c>>)
    /\ moves' = moves + 1
    /\ pc' = "end"
    /\ UNCHANGED <<width, height, mines, number, column_str>>

\* lines 390-391: raise GameOver
RaiseGameOver ==
    /\ pc = "end" /\ end = 0
    /\ pc' = "gameover"
    /\ UNCHANGED <<width, height, mines, map, value, visible, row, column,
                   flag, before, end, moves,
                   number, column_str>>

\* RaiseWin without the assignment of line 393
RaiseWin_Keep ==
    /\ pc = "end" /\ end = 1
    /\ pc' = "win"
    /\ UNCHANGED <<width, height, mines, map, value, visible, row, column,
                   flag, before, end, moves, number, column_str>>

\* lines 392-394: the whole grid becomes visible, raise Win
RaiseWin ==
    /\ pc = "end" /\ end = 1
    /\ visible' = Ones(width, height)
    /\ pc' = "win"
    /\ UNCHANGED <<width, height, mines, map, value, row, column, flag,
                   before, end, moves,
                   number, column_str>>

\* the game goes on: next iteration of the inner loop
NextMove ==
    /\ pc = "end" /\ end \notin {0, 1}
    /\ pc' = "position"
    /\ NoMove
    /\ UNCHANGED <<width, height, mines, map, value, visible, moves,
                   number, column_str>>

\* the play-again prompt: y / Y
PlayAgainYes ==
    /\ pc \in {"gameover", "win"}
    /\ pc' = "mapinfo"
    /\ UNCHANGED <<width, height, mines, map, value, visible, row, column,
                   flag, before, end, moves,
                   number, column_str>>

\* the play-again prompt: n / N
PlayAgainNo ==
    /\ pc \in {"gameover", "win"}
    /\ pc' = "exit"
    /\ UNCHANGED <<width, height, mines, map, value, visible, row, column,
                   flag, before, end, moves,
                   number, column_str>>

\* the play-again prompt: any other answer
PlayAgainOther ==
    /\ pc \in {"gameover", "win"}
    /\ UNCHANGED vars

Next ==
    \/ MapInfoReturn
    \/ MapInfoRetry
    \/ MapInfoRaise
    \/ Quit
    \/ Restart
    \/ Reprompt
    \/ Move
    \/ RaiseGameOver
    \/ RaiseWin
    \/ NextMove
    \/ PlayAgainYes
    \/ PlayAgainNo
    \/ PlayAgainOther

Spec == Init /\ [][Next]_vars

---------------------------------------------------------------------------
(* init_map on its own: every accepted board size within the bounds and   *)
(* every first position on the board                                      *)

InitGen ==
    /\ pc = "call"
    /\ \E w \in 1 .. MaxW, h \in 1 .. MaxH, m \in 1 .. MaxMines :
        /\ Accepted(w, h, m)
        /\ width = w /\ height = h /\ mines = m
        /\ \E c \in Cells(w, h) : row = c[1] /\ column = c[2]
    /\ map = None /\ value = None /\ visible = None
    /\ flag = FALSE /\ before = None /\ end = -1 /\ moves = 0
    /\ number = 0 /\ column_str = << >>

CallInitMap ==
    /\ pc = "call"
    /\ map' \in init_map(width, height, mines, <<row, column>>)
    /\ pc' = "returned"
    /\ UNCHANGED <<width, height, mines, value, visible, row, column, flag,
                   before, end, moves,
                   number, column_str>>

NextGen == CallInitMap

SpecInitMap == InitGen /\ [][NextGen]_vars

---------------------------------------------------------------------------
(* check_end on its own: the value grid of any mine grid, any visibility  *)
(* grid and any position, within the bounds                               *)

\* the mine grids of shape (h, w) with at most n mines
MineGrids(w, h, n) ==
    {m \in [Cells(w, h) -> {0, 1}] : Sum(m, Cells(w, h)) <= n}

InitEnd ==
    /\ pc = "call"
    /\ \E w \in 1 .. EndMaxW, h \in 1 .. EndMaxH :
        /\ width = w /\ height = h
        /\ map \in MineGrids(w, h, EndMaxMines)
        /\ visible \in [Cells(w, h) -> {-1, 0, 1}]
        /\ \E c \in Cells(w, h) : row = c[1] /\ column = c[2]
    /\ mines = Sum(map, DOMAIN map)
    /\ value = get_value(map)
    /\ flag = FALSE /\ before = None /\ end = -1 /\ moves = 0
    /\ number = 0 /\ column_str = << >>

CallCheckEnd ==
    /\ pc = "call"
    /\ end' = check_end(value, visible, <<row, column>>)
    /\ pc' = "returned"
    /\ UNCHANGED <<width, height, mines, map, value, visible, row, column,
                   flag, before, moves,
                   number, column_str>>

NextEnd == CallCheckEnd

SpecCheckEnd == InitEnd /\ [][NextEnd]_vars

---------------------------------------------------------------------------
(* update_visible on its own, for the reveal of a zero-valued cell, once  *)
(* and then a second time on the grid the first call returned: every      *)
(* accepted board size within the bounds, every mine grid init_map        *)
(* returns for it, every zero-valued position, and a visibility grid that *)
(* is all covered, or all flagged but for the position (the grid after a  *)
(* flag command on every other cell), or flagged on the position only     *)

\* the mine grids init_map returns for a board, over every first position
MapsOf(w, h, m) == UNION {init_map(w, h, m, c) : c \in Cells(w, h)}

\* the visibility grid with a flag on every cell but pos
FlaggedBut(w, h, pos) == [c \in Cells(w, h) |-> IF c = pos THEN 0 ELSE -1]

\* the visibility grid with a flag on pos only
FlaggedOnly(w, h, pos) == [c \in Cells(w, h) |-> IF c = pos THEN -1 ELSE 0]

InitFlood ==
    /\ pc = "call"
    /\ \E w \in 1 .. VisMaxW, h \in 1 .. VisMaxH, m \in 1 .. VisMaxMines :
        /\ Accepted(w, h, m)
        /\ width = w /\ height = h /\ mines = m
        /\ map \in MapsOf(w, h, m)
    /\ value = get_value(map)
    /\ \E c \in DOMAIN value :
        value[c] = 0 /\ row = c[1] /\ column = c[2]
    /\ visible \in {Zeros(width, height),
                     FlaggedBut(width, height, <<row, column>>),
                     FlaggedOnly(width, height, <<row, column>>)}
    /\ before = visible
    /\ flag = FALSE /\ end = -1 /\ moves = 0
    /\ number = 0 /\ column_str = << >>

CallUpdateVisible ==
    /\ pc = "call"
    /\ visible' = update_visible(value, visible, <<row, column>>, flag)
    /\ pc' = "returned"
    /\ UNCHANGED <<width, height, mines, map, value, row, column, flag,
                   before, end, moves,
                   number, column_str>>

\* the same call once more, on the grid the first call returned
CallUpdateVisibleAgain ==
    /\ pc = "returned"
    /\ before' = visible
    /\ visible' = update_visible(value, visible, <<row, column>>, flag)
    /\ pc' = "again"
    /\ UNCHANGED <<width, height, mines, map, value, row, column, flag,
                   end, moves, number, column_str>>

NextFlood == CallUpdateVisible \/ CallUpdateVisibleAgain

SpecFlood == InitFlood /\ [][NextFlood]_vars

---------------------------------------------------------------------------
(* get_value on its own: every mine grid within the bounds, whatever the  *)
(* number of mines                                                        *)

InitValue ==
    /\ pc = "call"
    /\ \E w \in 1 .. ValMaxW, h \in 1 .. ValMaxH :
        /\ width = w /\ height = h
        /\ map \in [Cells(w, h) -> {0, 1}]
    /\ mines = Sum(map, DOMAIN map)
    /\ value = None /\ visible = None
    /\ row = 0 /\ column = 0
    /\ flag = FALSE /\ before = None /\ end = -1 /\ moves = 0
    /\ number = 0 /\ column_str = << >>

CallGetValue ==
    /\ pc = "call"
    /\ value' = get_value(map)
    /\ pc' = "returned"
    /\ UNCHANGED <<width, height, mines, map, visible, row, column, flag,
                   before, end, moves, number, column_str>>

NextValue == CallGetValue

SpecGetValue == InitValue /\ [][NextValue]_vars

---------------------------------------------------------------------------
(* The codec on its own: int_to_letters on every number within the bound, *)
(* then letters_to_int on the label or on the label in lower case         *)

InitCodec ==
    /\ pc = "call"
    /\ number \in 1 .. MaxNumber
    /\ column_str = << >>
    /\ width = 0 /\ height = 0 /\ mines = 0
    /\ map = None /\ value = None /\ visible = None
    /\ row = 0 /\ column = 0
    /\ flag = FALSE /\ before = None /\ end = -1 /\ moves = 0

CallIntToLetters ==
    /\ pc = "call"
    /\ column_str' \in {int_to_letters(number), Lower(int_to_letters(number))}
    /\ pc' = "label"
    /\ UNCHANGED <<width, height, mines, map, value, visible, row, column,
                   flag, before, end, moves, number>>

CallLettersToInt ==
    /\ pc = "label"
    /\ column' = letters_to_int(column_str)
    /\ pc' = "returned"
    /\ UNCHANGED <<width, height, mines, map, value, visible, row, flag,
                   before, end, moves, number, column_str>>

NextCodec == CallIntToLetters \/ CallLettersToInt

SpecCodec == InitCodec /\ [][NextCodec]_vars

---------------------------------------------------------------------------
(* Properties *)

\* the position of the current move
Pos == <<row, column>>

\* the cells of a grid that hold a mine
MineCells(m) == {c \in DOMAIN m : m[c] = 1}

\* cells at most one row and one column apart
Adjacent(c, d) ==
    /\ c[1] - d[1] \in -1 .. 1
    /\ c[2] - d[2] \in -1 .. 1

\* the in-board cells at most one row and one column from c, c included
Neighbours(c) == {d \in DOMAIN value : Adjacent(c, d)}

RECURSIVE ZeroRegion(_)
\* the maximal 8-connected region of zero-valued cells that contains S
ZeroRegion(S) ==
    LET more == {d \in UNION {Neighbours(c) : c \in S} : value[d] = 0} \ S
    IN  IF more = {} THEN S ELSE ZeroRegion(S \cup more)

\* the region of the target and every in-board 8-neighbour of its cells
Closure == UNION {Neighbours(c) : c \in ZeroRegion({Pos})}

\* update_visible has just been applied to a reveal / a flag command
Revealing == pc = "end" /\ ~ flag
Flagging == pc = "end" /\ flag

\* C1: init_map never places a mine on the first position or on an
\* in-board cell of its 3x3 neighbourhood
C1_SafeZone ==
    pc = "returned" =>
        \A c \in DOMAIN map : Adjacent(c, Pos) => map[c] = 0

\* C1 witness: all the mines are placed around a first position on the top
\* edge of a board at least 3 x 3
C1_Witness ==
    /\ pc = "returned"
    /\ width >= 3 /\ height >= 3 /\ row = 0 /\ column = 1
    /\ Cardinality(MineCells(map)) = mines
    /\ map[<<0, 3>>] = 1

\* C2: for every accepted board size and every first position, init_map
\* returns a grid with exactly `mines` mines
C2_ExactlyM ==
    pc = "returned" => Cardinality(MineCells(map)) = mines

\* C3: a reveal of a zero-valued cell leaves every flagged cell flagged
C3_FloodKeepsFlags ==
    (Revealing /\ value[Pos] = 0) =>
        \A c \in DOMAIN visible : before[c] = -1 => visible[c] = -1

\* C4: a reveal of a non-flagged zero-valued cell sets exactly the cells of
\* the closure to revealed and leaves every other cell as it was
C4_FloodClosure ==
    (pc = "returned" /\ before[Pos] # -1 /\ value[Pos] = 0) =>
        LET closure == Closure
        IN  visible = [c \in DOMAIN before |->
                          IF c \in closure THEN 1 ELSE before[c]]

\* C4 witness: mines in two opposite corners of a 4 x 4 board, flagged as
\* every cell but <<0, 0>>; the zero-valued cells around <<0, 0>> and
\* around <<3, 3>> touch only by the corner of <<1, 1>> and <<2, 2>>; the
\* reveal of <<0, 0>> reveals <<3, 3>> and the counts of the border, and
\* leaves the mines flagged
C4_Witness ==
    /\ pc = "returned" /\ width = 4 /\ height = 4
    /\ MineCells(map) = {<<0, 3>>, <<3, 0>>}
    /\ Pos = <<0, 0>> /\ before = FlaggedBut(4, 4, <<0, 0>>)
    /\ value[<<1, 2>>] > 0 /\ value[<<2, 1>>] > 0
    /\ visible[<<3, 3>>] = 1 /\ visible[<<1, 2>>] = 1
    /\ visible[<<0, 3>>] = -1 /\ visible[<<3, 0>>] = -1

\* C4 in the rounds of run_game: the same after every reveal of a
\* non-flagged zero-valued cell, whatever was flagged or revealed before
C4_FloodClosureInRound ==
    (Revealing /\ before[Pos] # -1 /\ value[Pos] = 0) =>
        LET closure == Closure
        IN  visible = [c \in DOMAIN before |->
                          IF c \in closure THEN 1 ELSE before[c]]

\* C4 in the rounds of run_game, case reached: a flood whose region has
\* several cells, whose border holds a count, and which leaves a flagged
\* cell outside the closure flagged and a revealed one revealed
C4_InRoundReached ==
    /\ Revealing /\ before[Pos] = 0 /\ value[Pos] = 0
    /\ Cardinality(ZeroRegion({Pos})) >= 2
    /\ \E c \in Closure : value[c] > 0 /\ before[c] = 0
    /\ \E c \in DOMAIN value \ Closure : before[c] = -1 /\ visible[c] = -1
    /\ \E c \in DOMAIN value \ Closure : before[c] = 1 /\ visible[c] = 1

\* C11: a second reveal of the same zero-valued cell, right after the
\* first, returns the grid the first returned
C11_FloodIdempotent ==
    (pc = "again" /\ value[Pos] = 0 /\ ~ flag) => visible = before

\* C11 witness: the second reveal of a cell whose first reveal flooded a
\* region of several cells with counts on its border, over flags
C11_Witness ==
    /\ pc = "again" /\ value[Pos] = 0 /\ ~ flag
    /\ Cardinality(ZeroRegion({Pos})) >= 2
    /\ \E c \in Closure : value[c] > 0 /\ visible[c] = 1
    /\ \E c \in DOMAIN visible : visible[c] = -1
    /\ \E c \in DOMAIN visible : visible[c] = 1

\* C11, further case reached: both reveals on a flagged cell change nothing
C11_FlaggedReached ==
    /\ pc = "again" /\ value[Pos] = 0 /\ ~ flag
    /\ visible = FlaggedOnly(width, height, Pos)

\* C11 in the rounds of run_game: after every reveal of a zero-valued cell,
\* whatever was flagged or revealed before, the same reveal once more
\* returns the same grid
C11_IdempotentInRound ==
    (Revealing /\ value[Pos] = 0) =>
        update_visible(value, visible, Pos, FALSE) = visible

\* the number of mines among the in-board cells around c, c left out
MinesAround(c) ==
    Cardinality({d \in DOMAIN map : d # c /\ Adjacent(c, d) /\ map[d] = 1})

\* C12: get_value gives -1 exactly on the mine cells and, on every other
\* cell, the number of mines among its in-board 8 neighbours, in 0 .. 8
C12_ValueGrid ==
    pc = "returned" =>
        /\ DOMAIN value = DOMAIN map
        /\ \A c \in DOMAIN map :
              /\ value[c] = -1 <=> map[c] = 1
              /\ map[c] # 1 => value[c] = MinesAround(c) /\ value[c] \in 0 .. 8

\* C12 witness: a 3 x 3 grid with 6 mines, none on the centre or on two
\* opposite corners: the centre has the value 6 and each of the two
\* corners, with one neighbour off the mines and five off the board, 2
C12_Witness ==
    /\ pc = "returned" /\ width = 3 /\ height = 3
    /\ mines = 6
    /\ value[<<1, 1>>] = 6 /\ value[<<0, 0>>] = 2
    /\ value[<<2, 2>>] = 2 /\ value[<<0, 1>>] = -1

\* C12, further cases reached: the value 8; a mine with a mine on each
\* neighbour keeps the sentinel
C12_EightReached ==
    pc = "returned" /\ mines = 8 /\ value[<<1, 1>>] = 8
C12_AllMinesReached ==
    pc = "returned" /\ width = 3 /\ height = 3 /\ mines = 9
        /\ \A c \in DOMAIN value : value[c] = -1

\* a step of run_game that ends the process through Quit (line 409)
QuitStep == Next /\ pc' = "exit"

C13_ExitAfterLossReached == pc = "exit" /\ end = 0
C13_ExitAfterWinReached == pc = "exit" /\ end = 1
C13_LaterPromptReached == pc = "mapinfo" /\ map # None

\* C14: the board-size prompt never raises: run_game never ends with an
\* uncaught exception, and a round is played only on a triple that
\* satisfies the validation constraints
C14_PromptNeverRaises ==
    /\ pc # "error"
    /\ pc \in {"position", "end", "gameover", "win"} =>
          Accepted(width, height, mines)

\* C14, the part that holds: whatever get_mapinfo returns satisfies the
\* validation constraints
C14_ReturnsValid ==
    pc \in {"position", "end", "gameover", "win"} =>
        Accepted(width, height, mines)

\* C14, case reached: the IndexError at the board-size prompt of a later
\* round
C14_RaiseInLaterRoundReached == pc = "error" /\ map # None

\* C15: at the play-again prompt after a win every cell of the visibility
\* grid is revealed, the mine cells and the cells that were flagged too
C15_WinRevealsAll ==
    pc = "win" =>
        /\ end = 1
        /\ DOMAIN visible = Cells(width, height)
        /\ \A c \in DOMAIN visible : visible[c] = 1

\* C15 witness: a win by a move that found one mine flagged and another
\* covered; both are revealed at the play-again prompt
C15_Witness ==
    /\ pc = "win"
    /\ \E c \in DOMAIN value :
          value[c] = -1 /\ before[c] = -1 /\ visible[c] = 1
    /\ \E c \in DOMAIN value :
          value[c] = -1 /\ before[c] = 0 /\ visible[c] = 1

\* C15, further case reached: a win by the first move of a round
C15_WinByFirstMoveReached == pc = "win" /\ moves = 1

\* a step that plays a move (lines 379-389), the board-size prompt
\* returning (lines 366-369), the overwrite on a win (line 393)
MoveStep == pc = "position" /\ pc' = "end"
NewRoundStep == pc = "mapinfo" /\ pc' = "position"
WinStep == pc = "end" /\ end = 1 /\ pc' = "win"

\* C16: the first move of a round, flag or reveal, generates the mine grid
\* and the value grid, with no mine on or next to the position of that
\* move; no later move of the round changes either; the visibility grid
\* changes only by a move or by the overwrite on a win (within a round:
\* the next round starts by dropping the value and visibility grids)
C16_GridsOncePerRound ==
    [][/\ (MoveStep /\ value = None) =>
             /\ DOMAIN map' = Cells(width, height)
             /\ DOMAIN value' = Cells(width, height)
             /\ \A c \in DOMAIN map' :
                   /\ Adjacent(c, <<row', column'>>) => map'[c] = 0
                   /\ value'[c] = -1 <=> map'[c] = 1
       /\ (MoveStep /\ value # None) => (map' = map /\ value' = value)
       /\ ~ MoveStep =>
             /\ map' = map
             /\ value' = value \/ (NewRoundStep /\ value' = None)
       /\ visible' # visible =>
             \/ MoveStep
             \/ WinStep /\ visible' = Ones(width, height)
             \/ NewRoundStep /\ visible' = None
      ]_vars

\* C16 witness: the third move of a round, a reveal that floods, on grids
\* an earlier move generated
C16_Witness ==
    /\ pc = "end" /\ moves = 3 /\ ~ flag
    /\ value[Pos] = 0 /\ before[Pos] = 0
    /\ visible # before

\* C16, further cases reached: the grids generated by a first move that is
\* a flag command; a later flag command; a later round on another board
C16_FlagFirstReached ==
    pc = "end" /\ moves = 1 /\ flag /\ value # None /\ visible[Pos] = -1
C16_LaterFlagReached == pc = "end" /\ moves = 3 /\ flag
C16_NewBoardReached ==
    /\ pc = "end" /\ moves = 1 /\ width = 7
    /\ Cardinality(MineCells(map)) = 2

\* a step of run_game back to the board-size prompt
RestartStep == Next /\ pc' = "mapinfo"

\* C17: at every move prompt, before and after the grids are generated,
\* and at every play-again prompt, some input leads back to the board-size
\* prompt; the round that follows starts without value and visibility grid
\* and its first move plays on an all-covered grid and on grids of the new
\* board's shape, whatever the round before left
C17_RestartFresh ==
    /\ [](pc \in {"position", "gameover", "win"} => ENABLED RestartStep)
    /\ [][/\ NewRoundStep => (value' = None /\ visible' = None)
          /\ (pc = "position" /\ pc' \notin {"position", "end", "exit"}) =>
                pc' = "mapinfo"
          /\ (MoveStep /\ value = None) =>
                /\ before' = Zeros(width, height)
                /\ DOMAIN map' = Cells(width, height)
                /\ DOMAIN value' = Cells(width, height)
                /\ DOMAIN visible' = Cells(width, height)
          ]_vars

\* C17 witness: the move prompt of a new round, without value and
\* visibility grid, on a board of another shape than the mine grid the
\* round before generated
C17_Witness ==
    /\ pc = "position" /\ value = None /\ visible = None
    /\ map # None /\ DOMAIN map # Cells(width, height)

\* C17, further cases reached: the board-size prompt after r before the
\* grids are generated, after r with the grids generated, after y at the
\* play-again prompt; the first move of a round that follows another
C17_RestartBeforeGridsReached ==
    pc = "mapinfo" /\ width > 0 /\ map = None /\ value = None
C17_RestartAfterGridsReached ==
    pc = "mapinfo" /\ end = -1 /\ value # None
C17_PlayAgainReached == pc = "mapinfo" /\ end \in {0, 1}
C17_NextRoundMoveReached ==
    /\ pc = "end" /\ moves = 1 /\ width = 7 /\ height = 1
    /\ value[<<0, 0>>] = -1 /\ value[<<0, 6>>] = -1

\* the digit 1 .. 26 a character stands for (A or a: 1, Z or z: 26), 0 for
\* any other character
Digit(ch) ==
    IF ch \in 65 .. 90 THEN ch - 64
    ELSE IF ch \in 97 .. 122 THEN ch - 96
    ELSE 0

RECURSIVE Bijective26(_)
\* the number a label stands for in bijective base 26
Bijective26(l) ==
    IF l = << >> THEN 0
    ELSE 26 * Bijective26(SubSeq(l, 1, Len(l) - 1)) + Digit(l[Len(l)])

\* C18: int_to_letters(n) is the bijective base-26 label of n over A..Z
\* (1 "A", 26 "Z", 27 "AA"), and letters_to_int gives n - 1 for it, in
\* upper and in lower case
C18_CodecRoundTrip ==
    /\ pc \in {"label", "returned"} =>
          /\ Len(column_str) >= 1
          /\ \A i \in 1 .. Len(column_str) : Digit(column_str[i]) \in 1 .. 26
          /\ \/ \A i \in 1 .. Len(column_str) : column_str[i] \in 65 .. 90
             \/ \A i \in 1 .. Len(column_str) : column_str[i] \in 97 .. 122
          /\ Bijective26(column_str) = number
          /\ number = 1 => column_str \in {<<65>>, <<97>>}
          /\ number = 26 => column_str \in {<<90>>, <<122>>}
          /\ number = 27 => column_str \in {<<65, 65>>, <<97, 97>>}
    /\ pc = "returned" => column = number - 1

\* C18 witness: 703 gives "AAA"; in lower case it is read back as 702
C18_Witness ==
    /\ pc = "returned" /\ number = 703
    /\ column_str = <<97, 97, 97>> /\ column = 702

\* C18, further cases reached: "A" is column 0, "Z" 25, "AA" 26, "ZZ" 701
C18_AReached ==
    pc = "returned" /\ number = 1 /\ column_str = <<65>> /\ column = 0
C18_ZReached ==
    pc = "returned" /\ number = 26 /\ column_str = <<90>> /\ column = 25
C18_AAReached ==
    pc = "returned" /\ number = 27 /\ column_str = <<65, 65>> /\ column = 26
C18_ZZReached ==
    pc = "returned" /\ number = 702 /\ column_str = <<90, 90>>
        /\ column = 701

\* a round is being played: the last move, if any, was reported as going on
Playing == pc = "position" \/ (pc = "end" /\ end = -1)

\* C19: while a round is being played no mine cell is revealed
C19_NoMineRevealed ==
    (Playing /\ value # None) =>
        \A c \in DOMAIN value : value[c] = -1 => visible[c] # 1

\* C19 witness: a flood has revealed a count next to a covered mine and
\* has revealed nothing on a second, flagged mine
C19_Witness ==
    /\ pc = "end" /\ end = -1 /\ ~ flag
    /\ value[Pos] = 0 /\ before[Pos] = 0
    /\ \E c \in DOMAIN value, d \in DOMAIN value :
          /\ value[c] > 0 /\ before[c] = 0 /\ visible[c] = 1
          /\ Adjacent(c, d) /\ value[d] = -1 /\ visible[d] = 0
    /\ \E d \in DOMAIN value : value[d] = -1 /\ visible[d] = -1

\* C19, further cases reached: the round goes on after a reveal of a
\* flagged mine; a flood over a board where init_map placed fewer mines
\* than asked for
C19_FlaggedMineReached ==
    /\ pc = "position" /\ value # None /\ moves = 3
    /\ \E c \in DOMAIN value : value[c] = -1 /\ visible[c] = -1
    /\ \E c \in DOMAIN value : visible[c] = 1
C19_FewerMinesReached ==
    /\ pc = "end" /\ end = -1 /\ ~ flag /\ value[Pos] = 0
    /\ Cardinality(MineCells(map)) < mines
    /\ Cardinality(MineCells(map)) >= 1

\* C19 for update_visible on its own, on boards up to the bounds of
\* SpecFlood: a reveal of a zero-valued cell reveals no mine
C19_FloodRevealsNoMine ==
    pc \in {"returned", "again"} =>
        \A c \in DOMAIN value : value[c] = -1 => visible[c] # 1

\* C20: within a round every revealed zero-valued cell has all its
\* in-board neighbours revealed, and a revealed cell stays revealed
C20_ZeroClosedAndMonotone ==
    /\ [](visible # None =>
             \A c \in DOMAIN visible :
                 (visible[c] = 1 /\ value[c] = 0) =>
                     \A d \in Neighbours(c) : visible[d] = 1)
    /\ [][(visible # None /\ visible' # None) =>
              \A c \in DOMAIN visible : visible[c] = 1 => visible'[c] = 1
          ]_vars

\* C20 witness: after a flood, a flag command on a revealed cell and a
\* reveal of a count outside the closure, with cells still covered
C20_Witness ==
    /\ pc = "end" /\ moves = 3 /\ ~ flag /\ end = -1
    /\ value[Pos] > 0 /\ before[Pos] = 0
    /\ \E c \in DOMAIN value : value[c] = 0 /\ visible[c] = 1
    /\ \E c \in DOMAIN value : value[c] # -1 /\ visible[c] = 0

\* C20, further cases reached: a flag command on a revealed cell; a flood
\* over a flagged cell of its closure; a covered zero-valued cell next to a
\* revealed count
C20_FlagOnRevealedReached ==
    pc = "end" /\ flag /\ before[Pos] = 1 /\ visible[Pos] = 1
C20_FloodOverFlagReached ==
    /\ pc = "end" /\ ~ flag /\ value[Pos] = 0 /\ before[Pos] = 0
    /\ \E c \in DOMAIN value : before[c] = -1 /\ visible[c] = 1
C20_CoveredZeroReached ==
    /\ pc = "end" /\ ~ flag /\ value[Pos] > 0 /\ visible[Pos] = 1
    /\ \E c \in Neighbours(Pos) : value[c] = 0 /\ visible[c] = 0

\* C20 for update_visible on its own, on boards up to the bounds of
\* SpecFlood: after a reveal of a zero-valued cell every revealed
\* zero-valued cell has all its in-board neighbours revealed
C20_FloodZeroClosed ==
    pc \in {"returned", "again"} =>
        \A c \in DOMAIN visible :
            (visible[c] = 1 /\ value[c] = 0) =>
                \A d \in Neighbours(c) : visible[d] = 1

\* C5: check_end reports Won exactly when every non-mine cell is revealed,
\* whatever the state of the mine cells, unless it reports Lost
C5_WonIffAllRevealed ==
    (pc = "returned" /\ ~ (value[Pos] = -1 /\ visible[Pos] = 1)) =>
        /\ end = 1 <=>
              \A c \in DOMAIN value : value[c] # -1 => visible[c] = 1
        /\ end # 1 => end = -1

\* C6: check_end reports Lost if and only if the last position holds a mine
\* and is revealed
C6_LostIff ==
    pc = "returned" =>
        (end = 0 <=> (value[Pos] = -1 /\ visible[Pos] = 1))

\* C6 witness: a revealed mine away from the last position, and no loss
C6_Witness ==
    /\ pc = "returned" /\ end # 0
    /\ \E c \in DOMAIN value : c # Pos /\ value[c] = -1 /\ visible[c] = 1

\* C7: in a round, the reveal of a covered mine ends the move in a loss; a
\* flag command on a mine and a reveal of a flagged mine do not
C7_LossOnMine ==
    (pc \in {"end", "gameover", "win"} /\ value[Pos] = -1) =>
        /\ (~ flag /\ before[Pos] = 0) => (end = 0 /\ pc # "win")
        /\ (flag \/ before[Pos] = -1) => (end # 0 /\ pc # "gameover")
        /\ pc = "gameover" => end = 0

\* C7 witness: the play-again prompt after the reveal of a covered mine
C7_Witness ==
    /\ pc = "gameover" /\ ~ flag
    /\ before[Pos] = 0 /\ value[Pos] = -1 /\ end = 0

\* C7, further cases reached: a flag command on a mine, the reveal of a
\* flagged mine
C7_FlagOnMineReached == Flagging /\ value[Pos] = -1 /\ end = -1
C7_RevealFlaggedMineReached ==
    Revealing /\ before[Pos] = -1 /\ value[Pos] = -1 /\ end = -1

\* C8: a flag command changes the target cell only: covered to flagged,
\* flagged to covered, revealed stays; a second flag command on a cell that
\* was covered gives the grid back
C8_FlagToggle ==
    Flagging =>
        /\ visible = IF before[Pos] = 0 THEN [before EXCEPT ![Pos] = -1]
                     ELSE IF before[Pos] = -1 THEN [before EXCEPT ![Pos] = 0]
                     ELSE before
        /\ before[Pos] = 0 =>
              update_visible(value, visible, Pos, TRUE) = before

\* C8 witness: the second of two flag commands on the same cell of a new
\* round: the grid is all covered again
C8_Witness ==
    /\ Flagging /\ moves = 2
    /\ before[Pos] = -1
    /\ visible = Zeros(width, height)

\* C8, further case reached: a flag command on a revealed cell
C8_FlagOnRevealedReached == Flagging /\ before[Pos] = 1

\* C9: a reveal of a flagged cell changes nothing, whatever its value
C9_RevealFlaggedNoOp ==
    (Revealing /\ before[Pos] = -1) => visible = before

\* C9 witness: a reveal of a flagged cell that holds a count
C9_Witness ==
    Revealing /\ before[Pos] = -1 /\ value[Pos] > 0

\* C9, further case reached: a reveal of a flagged zero-valued cell
C9_RevealFlaggedZeroReached ==
    Revealing /\ before[Pos] = -1 /\ value[Pos] = 0

\* C10: a reveal of a covered cell with a non-zero value reveals that cell
\* and changes no other
C10_RevealSingle ==
    (Revealing /\ before[Pos] = 0 /\ value[Pos] # 0) =>
        visible = [before EXCEPT ![Pos] = 1]

\* C10 witness: the reveal of a covered count next to covered cells, with
\* other cells already revealed
C10_Witness ==
    /\ Revealing /\ before[Pos] = 0 /\ value[Pos] > 0
    /\ \E c \in DOMAIN visible :
          c # Pos /\ Adjacent(c, Pos) /\ visible[c] = 0
    /\ \E c \in DOMAIN visible : c # Pos /\ visible[c] = 1

====
